---- MODULE Spec2Model ----
(***************************************************************************)
(* A model of json_content_validator: the kinds (BaseKind and its four     *)
(* subclasses), the validator callables of validators.py, the validation   *)
(* chain of BaseKind.validate and the schema runner Validator.             *)
(*                                                                         *)
(* Python values are records [t, n, s]: t is the type tag, n the number    *)
(* (an int's value, a float's value in tenths, a list's length), s the     *)
(* characters of a str.  An exception that leaves a call is the outcome    *)
(* "raise" of that call.                                                   *)
(***************************************************************************)
EXTENDS Integers, Sequences, FiniteSets, TLC

VARIABLES
    _schema,    \* Validator._schema: the kinds, as constructed (name, kind, validators)
    fields,     \* per kind instance: the attributes data, process_errors, errors
    _errors,    \* Validator._errors: None, or the mapping built by the errors property
    runs,       \* per kind instance: what its most recent validate call did
    call,       \* the most recent validate call, on the Validator or on a kind
    read        \* what the most recent read of Validator.errors returned

vars == <<_schema, fields, _errors, runs, call, read>>

----------------------------------------------------------------------------
(* Bounds of the model *)

\* the longest validator chain a field of Spec is constructed with
MaxChain == 2

\* the longest validator chain a field of SchemaSpec is constructed with
MaxSchemaChain == 1

----------------------------------------------------------------------------
(* Python values *)

None == [t |-> "none", n |-> 0, s |-> <<>>]

PyInt(k) == [t |-> "int", n |-> k, s |-> <<>>]

\* a float, held in tenths: PyFloat(25) is 2.5
PyFloat(tenths) == [t |-> "float", n |-> tenths, s |-> <<>>]

PyStr(chars) == [t |-> "str", n |-> 0, s |-> chars]

\* the list [1] * len
PyList(len) == [t |-> "list", n |-> len, s |-> <<>>]

\* the key is missing from the mapping
Absent == [t |-> "absent", n |-> 0, s |-> <<>>]

\* bool(v)
Truthy(v) ==
    CASE v.t = "none" -> FALSE
      [] v.t = "int" -> v.n # 0
      [] v.t = "float" -> v.n # 0
      [] v.t = "str" -> v.s # <<>>
      [] v.t = "list" -> v.n # 0
      [] OTHER -> FALSE

\* x == y: numbers compare by value, whatever their type
PyEq(x, y) ==
    IF x.t \in {"int", "float"} /\ y.t \in {"int", "float"}
    THEN (IF x.t = "int" THEN 10 * x.n ELSE x.n) = (IF y.t = "int" THEN 10 * y.n ELSE y.n)
    ELSE x = y

Digits == <<"0", "1", "2", "3", "4", "5", "6", "7", "8", "9">>

IsDigit(c) == \E d \in 1..10 : Digits[d] = c

DigitVal(c) == (CHOOSE d \in 1..10 : Digits[d] = c) - 1

RECURSIVE NatToStr(_)
NatToStr(k) ==
    IF k < 10 THEN <<Digits[k + 1]>>
    ELSE NatToStr(k \div 10) \o <<Digits[(k % 10) + 1]>>

IntToStr(k) == IF k < 0 THEN <<"-">> \o NatToStr(-k) ELSE NatToStr(k)

RECURSIVE ListBody(_)
ListBody(len) ==
    IF len = 0 THEN <<>>
    ELSE IF len = 1 THEN <<"1">>
    ELSE ListBody(len - 1) \o <<",", " ", "1">>

\* str(v), as characters
StrOf(v) ==
    CASE v.t = "none" -> <<"N", "o", "n", "e">>
      [] v.t = "int" -> IntToStr(v.n)
      [] v.t = "float" ->
            IF v.n < 0
            THEN <<"-">> \o NatToStr((-v.n) \div 10) \o <<".", Digits[((-v.n) % 10) + 1]>>
            ELSE NatToStr(v.n \div 10) \o <<".", Digits[(v.n % 10) + 1]>>
      [] v.t = "str" -> v.s
      [] v.t = "list" -> <<"[">> \o ListBody(v.n) \o <<"]">>
      [] OTHER -> <<>>

RECURSIVE DigitsVal(_)
DigitsVal(chars) ==
    IF chars = <<>> THEN 0
    ELSE 10 * DigitsVal(SubSeq(chars, 1, Len(chars) - 1)) + DigitVal(chars[Len(chars)])

AllDigits(chars) == chars # <<>> /\ \A i \in 1..Len(chars) : IsDigit(chars[i])

\* the number a sign and digits spell
Literal(neg, body) ==
    IF AllDigits(body)
    THEN [ok |-> TRUE, n |-> IF neg THEN -DigitsVal(body) ELSE DigitsVal(body)]
    ELSE [ok |-> FALSE, n |-> 0]

\* the literal of a string handed to int(): an optional sign, then digits
ParseInt(chars) ==
    IF chars # <<>> /\ chars[1] = "-"
    THEN Literal(TRUE, Tail(chars))
    ELSE Literal(FALSE, chars)

\* a whole part and a digit after the point, in tenths
Tenths(neg, whole, frac) ==
    IF whole.ok
    THEN [ok |-> TRUE, n |-> IF neg THEN 10 * whole.n - frac ELSE 10 * whole.n + frac]
    ELSE [ok |-> FALSE, n |-> 0]

\* the literal of a string handed to float(), in tenths: an int literal,
\* optionally followed by a point and one digit
ParseFloat(chars) ==
    IF Len(chars) >= 3 /\ chars[Len(chars) - 1] = "." /\ IsDigit(chars[Len(chars)])
    THEN Tenths(chars[1] = "-", ParseInt(SubSeq(chars, 1, Len(chars) - 2)),
                DigitVal(chars[Len(chars)]))
    ELSE Tenths(FALSE, ParseInt(chars), 0)

\* the value of a parsed literal, or the ValueError of a string that is none
Parsed(literal, value) ==
    IF literal.ok
    THEN [raised |-> "none", v |-> value]
    ELSE [raised |-> "ValueError", v |-> None]

\* int(v) of a truthy value: the value, or the exception it raises
IntOf(v) ==
    CASE v.t = "int" -> [raised |-> "none", v |-> v]
      [] v.t = "float" ->
            [raised |-> "none",
             v |-> PyInt(IF v.n < 0 THEN -((-v.n) \div 10) ELSE v.n \div 10)]
      [] v.t = "str" -> Parsed(ParseInt(v.s), PyInt(ParseInt(v.s).n))
      [] OTHER -> [raised |-> "TypeError", v |-> None]

\* float(v) of a truthy value: the value, or the exception it raises
FloatOf(v) ==
    CASE v.t = "int" -> [raised |-> "none", v |-> PyFloat(10 * v.n)]
      [] v.t = "float" -> [raised |-> "none", v |-> v]
      [] v.t = "str" -> Parsed(ParseFloat(v.s), PyFloat(ParseFloat(v.s).n))
      [] OTHER -> [raised |-> "TypeError", v |-> None]

----------------------------------------------------------------------------
(* Messages *)

\* a message template: its text and the number of {} fields in it
Template(text, slots) == [text |-> text, slots |-> slots]

default_messages ==
    [required |-> Template("Field is required", 0),
     email |-> Template("Invalid email value", 0),
     regex |-> Template("Invalid input value", 0),
     any_of |-> Template("Invalid value, must be one of: ({})s", 1),
     number_range_min |-> Template("Number must be at least ({})s", 1),
     number_range_max |-> Template("Number must be at most ({})s.", 1),
     number_range_between |-> Template("Number must be between %(min)s and %(max)s.", 0),
     uuid |-> Template("Invalid UUID value", 0),
     url |-> Template("Invalid URL value", 0),
     length_min |-> Template("Field must be at least {} character/s long", 1),
     length_max |-> Template("Field cannot be longer than {} character/s", 1),
     length_exact |-> Template("Field must be exactly {} character/s long", 1),
     length_between |-> Template("Field must be between {} and {} characters long", 2)]

\* BaseKind.gettext, with the messages JSONContentValidator hands to every kind
gettext(string) ==
    IF string \in DOMAIN default_messages
    THEN default_messages[string]
    ELSE Template("No error message defined", 0)

\* a message: a text and the values str.format put into its {} fields
Message(text, args) == [text |-> text, args |-> args]

\* template.format(*args): the arguments beyond the template's fields are dropped
Format(template, args) ==
    Message(template.text, SubSeq(args, 1, template.slots))

NotAValidString == Message("Not a valid string value", <<>>)
NotAValidInteger == Message("Not a valid integer value", <<>>)
NotAValidFloat == Message("Not a valid float value", <<>>)

\* the message ValidationError and ValidationStop carry by default
EmptyMessage == Message("", <<>>)

----------------------------------------------------------------------------
(* Kinds: process_json *)

Kinds == {"string", "integer", "float", "any"}

\* json_data.get(name, None)
JsonGet(json_data, name) ==
    IF json_data[name] = Absent THEN None ELSE json_data[name]

\* the conversion a kind applies to a truthy value
Coerce(kind, value) ==
    CASE kind = "string" -> [raised |-> "none", v |-> PyStr(StrOf(value))]
      [] kind = "integer" -> IntOf(value)
      [] kind = "float" -> FloatOf(value)
      [] OTHER -> [raised |-> "none", v |-> value]

CoercionMessage(kind) ==
    CASE kind = "string" -> NotAValidString
      [] kind = "integer" -> NotAValidInteger
      [] kind = "float" -> NotAValidFloat
      [] OTHER -> EmptyMessage

\* the except clause of process_json, for what the conversion c raised: a
\* ValueError is caught, data is set to None and a ValueError with the kind's
\* message is raised; any other exception leaves as it is, data untouched
Converted(kind, data, c) ==
    CASE c.raised = "none" ->
            [data |-> c.v, raised |-> "none", args |-> <<>>, coercion |-> "done"]
      [] c.raised = "ValueError" ->
            [data |-> None, raised |-> "ValueError",
             args |-> <<CoercionMessage(kind)>>, coercion |-> "ValueError"]
      [] OTHER ->
            [data |-> data, raised |-> c.raised,
             args |-> <<Message("argument must be a string or a number", <<>>)>>,
             coercion |-> c.raised]

\* process_json of the four kinds, for the value looked up: the field's data
\* after the call and the exception that leaves it
ProcessValue(kind, data, value) ==
    IF ~Truthy(value)
    THEN [data |-> data, raised |-> "none", args |-> <<>>, coercion |-> "skipped"]
    ELSE Converted(kind, data, Coerce(kind, value))

process_json(kind, name, data, json_data) ==
    ProcessValue(kind, data, JsonGet(json_data, name))

----------------------------------------------------------------------------
(* Validators.  The outcome of a call is the exception that leaves it      *)
(* ("none" when it returns), the exception's args, and the field's errors  *)
(* list after the call.                                                    *)

Returns(errors) == [exc |-> "none", args |-> <<>>, errors |-> errors]

\* raise ValidationError(message): a ValueError
ValidationError(message, errors) ==
    [exc |-> "ValueError", args |-> <<message>>, errors |-> errors]

\* raise ValidationStop(message)
ValidationStop(message, errors) ==
    [exc |-> "ValidationStop", args |-> <<message>>, errors |-> errors]

\* BaseKind.type: __type is name-mangled per class, so the property reads
\* BaseKind's own attribute whatever the subclass
type(kind) == "any"

\* Required.__call__, constructed with message=None
Required(kind, data, errors) ==
    IF ~Truthy(data)
    THEN ValidationStop(Format(gettext("required"), <<>>), <<>>)
    ELSE Returns(errors)

\* Optional.__call__
Optional(kind, data, errors) ==
    IF ~Truthy(data)
    THEN ValidationStop(EmptyMessage, <<>>)
    ELSE Returns(errors)

\* the arguments Length is constructed with; -1 is "not given"
LengthArgs == [min |-> 2, max |-> 3]

\* the message of a Length(min, max) that failed
LengthMessage(min, max) ==
    IF max = -1 THEN Format(gettext("length_min"), <<min>>)
    ELSE IF min = -1 THEN Format(gettext("length_max"), <<max>>)
    ELSE IF min = max THEN Format(gettext("length_exact"), <<max>>)
    ELSE Format(gettext("length_between"), <<min, max>>)

\* the check of Length on the length found
LengthCheck(length, min, max, errors) ==
    IF length < min \/ (max # -1 /\ length > max)
    THEN ValidationError(LengthMessage(min, max), errors)
    ELSE Returns(errors)

\* Length.__call__
Length(kind, data, errors) ==
    LengthCheck(Len(IF type(kind) # "string" THEN StrOf(data) ELSE data.s),
                LengthArgs.min, LengthArgs.max, errors)

\* the values AnyOf is constructed with
AnyOfValues == {PyStr(<<"a">>), PyInt(5)}

\* AnyOf.__call__
AnyOf(kind, data, errors) ==
    IF ~(\E v \in AnyOfValues : PyEq(data, v))
    THEN ValidationError(Format(gettext("anyOf"), <<AnyOfValues>>), errors)
    ELSE Returns(errors)

\* the arguments NumberRange is constructed with
NumberRangeArgs == [hasMin |-> TRUE, min |-> 1, hasMax |-> TRUE, max |-> 10]

\* the message of a NumberRange that failed
NumberRangeMessage(a) ==
    IF ~a.hasMax THEN Format(gettext("number_range_max"), <<None>>)
    ELSE IF ~a.hasMin THEN Format(gettext("number_range_min"), <<None>>)
    ELSE Format(gettext("number_range_between"), <<a.min, a.max>>)

\* a number in tenths
InTenths(data) == IF data.t = "int" THEN 10 * data.n ELSE data.n

\* NumberRange.__call__ with the arguments a: comparing a str or a list with
\* a number is a TypeError
NumberRangeCheck(a, data, errors) ==
    IF data = None THEN ValidationError(NumberRangeMessage(a), errors)
    ELSE IF (a.hasMin \/ a.hasMax) /\ data.t \notin {"int", "float"}
    THEN [exc |-> "Exception",
          args |-> <<Message("'<' not supported between instances", <<>>)>>,
          errors |-> errors]
    ELSE IF (a.hasMin /\ InTenths(data) < 10 * a.min)
                \/ (a.hasMax /\ InTenths(data) > 10 * a.max)
    THEN ValidationError(NumberRangeMessage(a), errors)
    ELSE Returns(errors)

NumberRange(kind, data, errors) == NumberRangeCheck(NumberRangeArgs, data, errors)

\* a callable of the caller's own whose check fails with a bare exception,
\* as a failed assert does: an Exception whose args are empty
Faulty(kind, data, errors) ==
    [exc |-> "Exception", args |-> <<>>, errors |-> errors]

ValidatorNames == {"Required", "Optional", "Length", "AnyOf", "NumberRange", "Faulty"}

\* validator(self)
Invoke(validator, kind, data, errors) ==
    CASE validator = "Required" -> Required(kind, data, errors)
      [] validator = "Optional" -> Optional(kind, data, errors)
      [] validator = "Length" -> Length(kind, data, errors)
      [] validator = "AnyOf" -> AnyOf(kind, data, errors)
      [] validator = "NumberRange" -> NumberRange(kind, data, errors)
      [] OTHER -> Faulty(kind, data, errors)

----------------------------------------------------------------------------
(* BaseKind *)

\* BaseKind.__init__: an empty validators argument leaves the class's tuple()
BaseKind(name, kind, validators) ==
    [name |-> name, kind |-> kind, validators |-> validators]

\* the class attributes an instance starts with
ClassAttributes == [data |-> None, process_errors |-> <<>>, errors |-> <<>>]

\* bool(message) of an exception's first argument
MessageTruthy(message) == message.text # ""

\* what a call of one validator of the chain did
Invocation(validator, outcome) ==
    [validator |-> validator, exc |-> outcome.exc, args |-> outcome.args]

\* the step of the loop that follows the call of a validator: an exception
\* without args makes e.args[0] an IndexError raised inside the handler
\* ("raise"); ValidationStop breaks ("break"); anything else goes on ("next")
Handle(o) ==
    CASE o.exc = "none" -> [errors |-> o.errors, then |-> "next"]
      [] o.exc = "ValidationStop" ->
            IF o.args # <<>> /\ MessageTruthy(o.args[1])
            THEN [errors |-> Append(o.errors, o.args[1]), then |-> "break"]
            ELSE [errors |-> o.errors, then |-> "break"]
      [] o.exc = "ValueError" ->
            IF o.args = <<>>
            THEN [errors |-> o.errors, then |-> "raise"]
            ELSE [errors |-> Append(o.errors, o.args[1]), then |-> "next"]
      [] OTHER ->
            IF o.args = <<>>
            THEN [errors |-> o.errors, then |-> "raise"]
            ELSE [errors |-> o.errors, then |-> "next"]

\* BaseKind._run_validation_chain: the errors list after the loop, the calls
\* it made in order, and the exception that leaves it
RECURSIVE _run_validation_chain(_, _, _, _, _)
\* the loop after a validator's outcome has been handled as h
AfterCall(kind, data, validators, invoked, h) ==
    IF h.then = "next"
    THEN _run_validation_chain(kind, data, Tail(validators), h.errors, invoked)
    ELSE [errors |-> h.errors, invoked |-> invoked,
          raised |-> IF h.then = "raise" THEN "IndexError" ELSE "none"]

\* the loop after the first of validators has been called with outcome o
CallValidator(kind, data, validators, invoked, o) ==
    AfterCall(kind, data, validators,
              Append(invoked, Invocation(Head(validators), o)), Handle(o))

_run_validation_chain(kind, data, validators, errors, invoked) ==
    IF validators = <<>>
    THEN [errors |-> errors, invoked |-> invoked, raised |-> "none"]
    ELSE CallValidator(kind, data, validators, invoked,
                       Invoke(Head(validators), kind, data, errors))

\* the statement left commented out: self.process_errors.append(e.args[0])
AppendProcessError(process_errors, args) == Append(process_errors, args[1])

\* self.process_errors = [e.args[0]]
RecordProcessError(process_errors, args) == <<args[1]>>

\* what validate returns, or "raise" when an exception leaves it
Result(chain) ==
    IF chain.raised # "none" THEN "raise"
    ELSE IF Len(chain.errors) = 0 THEN "True" ELSE "False"

\* what a validate call did: the value looked up, how the coercion went, the
\* data the validators saw, the validators called, self.errors when the call
\* ended, the result
Run(value, p, chain, result) ==
    [called |-> TRUE, value |-> value, coercion |-> p.coercion, seen |-> p.data,
     invoked |-> chain.invoked, errors |-> chain.errors, result |-> result]

NoChain(errors) == [errors |-> errors, invoked |-> <<>>, raised |-> "none"]

\* BaseKind.validate from "self.errors = list(self.process_errors)" on
Validated(kind, value, p, process_errors, chain) ==
    [self |-> [data |-> p.data, process_errors |-> process_errors, errors |-> chain.errors],
     run |-> Run(value, p, chain, Result(chain))]

RunValidators(kind, value, p, process_errors) ==
    Validated(kind, value, p, process_errors,
              IF process_errors = <<>>
              THEN _run_validation_chain(kind.kind, p.data, kind.validators, process_errors, <<>>)
              ELSE NoChain(process_errors))

\* BaseKind.validate after process_json has ended as p: a ValueError is
\* caught, any other exception leaves validate
AfterProcess(kind, self, value, p) ==
    IF p.raised \notin {"none", "ValueError"}
    THEN [self |-> [self EXCEPT !.data = p.data],
          run |-> Run(value, p, NoChain(self.errors), "raise")]
    ELSE RunValidators(kind, value, p,
                       IF p.raised = "ValueError"
                       THEN RecordProcessError(self.process_errors, p.args)
                       ELSE self.process_errors)

\* BaseKind.validate: the instance after the call and what the call did
validate(kind, self, json_data) ==
    AfterProcess(kind, self, JsonGet(json_data, kind.name),
                 process_json(kind.kind, kind.name, self.data, json_data))

----------------------------------------------------------------------------
(* Validator *)

\* the for loop of Validator.validate from item i on: an exception of an
\* item's validate leaves the loop
RECURSIVE ValidateItems(_, _, _, _, _, _)
\* the loop after item i's validate has ended as v
AfterItem(i, json_data, flds, rns, success, visited, v) ==
    IF v.run.result = "raise"
    THEN [fields |-> [flds EXCEPT ![i] = v.self], runs |-> [rns EXCEPT ![i] = v.run],
          visited |-> Append(visited, i), result |-> "raise"]
    ELSE ValidateItems(i + 1, json_data, [flds EXCEPT ![i] = v.self],
                       [rns EXCEPT ![i] = v.run],
                       success /\ v.run.result = "True", Append(visited, i))

ValidateItems(i, json_data, flds, rns, success, visited) ==
    IF i > Len(_schema)
    THEN [fields |-> flds, runs |-> rns, visited |-> visited,
          result |-> IF success THEN "True" ELSE "False"]
    ELSE AfterItem(i, json_data, flds, rns, success, visited,
                   validate(_schema[i], flds[i], json_data))

\* {i.name: i.errors for i in self._schema if i.errors}
ErrorsMapping(flds) ==
    LET failed == {i \in 1..Len(_schema) : flds[i].errors # <<>>}
    IN  [name \in {_schema[i].name : i \in failed} |->
            flds[CHOOSE i \in failed : _schema[i].name = name].errors]

NoneMapping == [cached |-> FALSE, map |-> <<>>]

----------------------------------------------------------------------------
(* Inputs *)

\* the values an input mapping of Spec holds under a key
Values ==
    {Absent, None, PyStr(<<>>), PyStr(<<"a">>), PyStr(<<"1", "2">>),
     PyInt(0), PyInt(5), PyFloat(25), PyList(1)}

\* the values an input mapping of SchemaSpec holds under a key
SchemaValues == {Absent, PyStr(<<"a">>), PyStr(<<"1", "2">>), PyList(1)}

Chains(maxlen) == UNION {[1..k -> ValidatorNames] : k \in 0..maxlen}

NoRun ==
    [called |-> FALSE, value |-> None, coercion |-> "skipped", seen |-> None,
     invoked |-> <<>>, errors |-> <<>>, result |-> "none"]

NoCall(names) ==
    [op |-> "none", target |-> 0, json_data |-> [n \in names |-> Absent],
     result |-> "none", visited |-> <<>>, repeat |-> FALSE]

NoRead == [done |-> FALSE, map |-> <<>>]

Names == {_schema[i].name : i \in 1..Len(_schema)}

----------------------------------------------------------------------------
(* Actions *)

InitState ==
    /\ fields = [i \in 1..Len(_schema) |-> ClassAttributes]
    /\ _errors = NoneMapping
    /\ runs = [i \in 1..Len(_schema) |-> NoRun]
    /\ call = NoCall(Names)
    /\ read = NoRead

\* one kind of any type with any chain of at most MaxChain validators
Init ==
    /\ \E kind \in Kinds, validators \in Chains(MaxChain) :
            _schema = <<BaseKind("a", kind, validators)>>
    /\ InitState

\* a schema of two kinds: the first of any type with any chain of at most
\* MaxSchemaChain validators, the second a required integer
SchemaInit ==
    /\ \E kind \in Kinds, validators \in Chains(MaxSchemaChain) :
            _schema = <<BaseKind("a", kind, validators),
                        BaseKind("b", "integer", <<"Required">>)>>
    /\ InitState

\* the state after validate on kind i ended as v
KindValidated(i, json_data, v) ==
    /\ fields' = [fields EXCEPT ![i] = v.self]
    /\ runs' = [runs EXCEPT ![i] = v.run]
    /\ call' = [op |-> "BaseKind.validate", target |-> i, json_data |-> json_data,
                result |-> v.run.result, visited |-> <<i>>,
                repeat |-> call.op = "BaseKind.validate" /\ call.json_data = json_data]
    /\ UNCHANGED <<_schema, _errors, read>>

\* a call of validate on a kind itself
KindValidate ==
    \E i \in 1..Len(_schema), json_data \in [Names -> Values] :
        KindValidated(i, json_data, validate(_schema[i], fields[i], json_data))

\* the state after the loop of Validator.validate ended as v
ValidatorValidated(json_data, v) ==
    /\ _errors' = NoneMapping
    /\ fields' = v.fields
    /\ runs' = v.runs
    /\ call' = [op |-> "Validator.validate", target |-> 0, json_data |-> json_data,
                result |-> v.result, visited |-> v.visited,
                repeat |-> call.op = "Validator.validate" /\ call.json_data = json_data]
    /\ read' = NoRead
    /\ UNCHANGED _schema

\* Validator.validate
ValidatorValidate ==
    \E json_data \in [Names -> SchemaValues] :
        ValidatorValidated(json_data, ValidateItems(1, json_data, fields, runs, TRUE, <<>>))

\* the state after the errors property returned mapping
ErrorsRead(mapping) ==
    /\ _errors' = [cached |-> TRUE, map |-> mapping]
    /\ read' = [done |-> TRUE, map |-> mapping]
    /\ UNCHANGED <<_schema, fields, runs, call>>

\* a read of the property Validator.errors
ReadErrors ==
    ErrorsRead(IF ~_errors.cached THEN ErrorsMapping(fields) ELSE _errors.map)

Next == KindValidate

Spec == Init /\ [][Next]_vars

SchemaNext == ValidatorValidate \/ ReadErrors

SchemaSpec == SchemaInit /\ [][SchemaNext]_vars

----------------------------------------------------------------------------
(* Properties.  In Spec the schema holds one kind, named "a".              *)

\* name is in the chain and none of others comes before its first occurrence
Leads(validators, name, others) ==
    \E k \in 1..Len(validators) :
        /\ validators[k] = name
        /\ \A j \in 1..(k - 1) : validators[j] \notin others

CoercionTexts ==
    {"Not a valid string value", "Not a valid integer value", "Not a valid float value"}

CoercionFailed(run) == run.coercion \notin {"skipped", "done"}

\* the call of a validator ended in a failure that is reported: a validation
\* error, or a chain-stop that carries a message
Reportable(invocation) ==
    \/ invocation.exc = "ValueError"
    \/ /\ invocation.exc = "ValidationStop"
       /\ invocation.args # <<>>
       /\ invocation.args[1].text # ""

\* C1: a validate call on a kind whose chain has Required (with no Optional
\* and no faulty validator before it), with an input that lacks the kind's
\* key, returns False and leaves errors equal to [the Required message],
\* whatever calls came before.
C1_RequiredOnMissingKey ==
    (/\ runs[1].called
     /\ call.json_data["a"] = Absent
     /\ Leads(_schema[1].validators, "Required", {"Optional", "Faulty"}))
        => /\ call.result = "False"
           /\ fields[1].errors = <<Message("Field is required", <<>>)>>

\* C2: a validate call on a kind whose chain has Optional (with no Required
\* and no faulty validator before it), with an input whose value is absent
\* or empty, returns True and leaves errors empty, whatever calls came before.
C2_OptionalOnEmptyValue ==
    (/\ runs[1].called
     /\ call.json_data["a"] \in {Absent, None, PyStr(<<>>)}
     /\ Leads(_schema[1].validators, "Optional", {"Required", "Faulty"}))
        => /\ call.result = "True"
           /\ fields[1].errors = <<>>

\* C3: validate never raises: it returns True or False; a coercion that
\* failed in any way left a coercion error in errors; and after a validator
\* that failed with an unexpected exception the next validator was still run.
C3_NeverRaises ==
    runs[1].called =>
        /\ call.result \in {"True", "False"}
        /\ CoercionFailed(runs[1]) =>
                \E k \in 1..Len(fields[1].errors) :
                    fields[1].errors[k].text \in CoercionTexts
        /\ \A k \in 1..Len(runs[1].invoked) :
                (runs[1].invoked[k].exc = "Exception" /\ k < Len(_schema[1].validators))
                    => Len(runs[1].invoked) > k

\* C4: Validator.validate calls validate on every kind of the schema once, in
\* schema order, and returns True exactly when every one of them returned True.
C4_EveryFieldValidated ==
    call.op = "Validator.validate" =>
        /\ call.visited = [i \in 1..Len(_schema) |-> i]
        /\ (call.result = "True") <=> (\A i \in 1..Len(_schema) : runs[i].result = "True")

\* the kinds the most recent Validator.validate ran that ended with errors
FailedInCall ==
    {i \in 1..Len(_schema) :
        /\ \E k \in 1..Len(call.visited) : call.visited[k] = i
        /\ runs[i].errors # <<>>}

\* C5: a read of Validator.errors returns the mapping from the names of the
\* kinds that ended the most recent Validator.validate with errors to their
\* errors of that call, and nothing else.
C5_ErrorsOfTheLastValidate ==
    (read.done /\ call.op = "Validator.validate") =>
        read.map = [name \in {_schema[i].name : i \in FailedInCall} |->
                        runs[CHOOSE i \in FailedInCall : _schema[i].name = name].errors]

\* C6: a Validator.validate call with the input of the Validator.validate
\* call before it ends as that call did (the same boolean, or the same
\* exception leaving it) and leaves the same errors mapping.
C6_Idempotent ==
    [][(/\ call.op = "Validator.validate"
        /\ call'.op = "Validator.validate"
        /\ ~read'.done
        /\ call'.json_data = call.json_data)
            => /\ call'.result = call.result
               /\ ErrorsMapping(fields') = ErrorsMapping(fields)]_vars

\* a Validator.validate call repeated the input of the one before it, on a
\* schema whose first kind holds a coercion error, and returned False
C6_Witness ==
    /\ call.op = "Validator.validate"
    /\ call.repeat
    /\ call.result = "False"
    /\ fields[1].process_errors # <<>>
    /\ runs[2].result = "True"

\* C7: after a validate call errors is non-empty only if the coercion of
\* that call failed or a validator of that call raised a reportable failure,
\* and holds no coercion error when the coercion of that call did not fail.
C7_ErrorsOfThisRun ==
    runs[1].called =>
        /\ fields[1].errors # <<>> =>
                \/ CoercionFailed(runs[1])
                \/ \E k \in 1..Len(runs[1].invoked) : Reportable(runs[1].invoked[k])
        /\ ~CoercionFailed(runs[1]) =>
                \A k \in 1..Len(fields[1].errors) :
                    fields[1].errors[k].text \notin CoercionTexts

\* C8: when the value is absent or falsy, or its coercion fails, the data the
\* validators see and the data left by the call is None; when the value was
\* coerced, it is the coerced value.
C8_DataOfThisRun ==
    runs[1].called =>
        IF runs[1].coercion = "done"
        THEN /\ fields[1].data = Coerce(_schema[1].kind, runs[1].value).v
             /\ runs[1].seen = fields[1].data
        ELSE /\ fields[1].data = None
             /\ runs[1].seen = None

\* C9: a validate call whose coercion fails leaves exactly the coercion error
\* of the kind in errors, calls no validator and returns False.
C9_CoercionFailure ==
    (runs[1].called /\ CoercionFailed(runs[1])) =>
        /\ Len(fields[1].errors) = 1
        /\ fields[1].errors[1].text \in CoercionTexts
        /\ runs[1].invoked = <<>>
        /\ call.result = "False"

\* the messages the calls of a chain raised, in the order of the calls
RECURSIVE Raised(_)
Raised(invoked) ==
    IF invoked = <<>> THEN <<>>
    ELSE IF Reportable(Head(invoked)) THEN <<Head(invoked).args[1]>> \o Raised(Tail(invoked))
    ELSE Raised(Tail(invoked))

IsSuffix(s, t) == Len(s) <= Len(t) /\ s = SubSeq(t, Len(t) - Len(s) + 1, Len(t))

\* C10: in a validate call whose coercion produced no error (on a chain
\* without a faulty validator) the validators called are the prefix of the
\* chain up to and including the first one that signals a chain-stop, the
\* whole chain if none does, and errors holds the messages raised in the
\* order of the calls, those before a clearing chain-stop removed.
C10_ChainPrefix ==
    (/\ runs[1].called
     /\ ~CoercionFailed(runs[1])
     /\ \A k \in 1..Len(_schema[1].validators) : _schema[1].validators[k] # "Faulty") =>
        LET invoked == runs[1].invoked
            n == Len(invoked)
        IN  /\ n <= Len(_schema[1].validators)
            /\ \A k \in 1..n : invoked[k].validator = _schema[1].validators[k]
            /\ \A k \in 1..(n - 1) : invoked[k].exc # "ValidationStop"
            /\ n = Len(_schema[1].validators) \/ invoked[n].exc = "ValidationStop"
            /\ IsSuffix(fields[1].errors, Raised(invoked))

====
